---- MODULE Spec2Model ----
(***************************************************************************)
(* Model of the team orchestration core of autogen_research:               *)
(*   - ResearchTeam.research (teams/research_team.py): one invocation      *)
(*     consumes the conversation stream item by item, keeps the returned   *)
(*     list `messages`, the working `conversation_history`, the token      *)
(*     statistics and the Metric of the invocation;                        *)
(*   - MetricsCollector.start_task / end_task (utils/metrics.py);          *)
(*   - TokenCounter.get_token_stats and truncate_conversation_history      *)
(*     (utils/tokens.py).                                                  *)
(*                                                                         *)
(* A text is modelled by what the code looks at: its token count (what     *)
(* count_tokens returns for it) and the spelling of the termination        *)
(* keyword it contains, if any.  The speaker of an agent turn is one of    *)
(* the selected agents; no property below depends on which one, so agent   *)
(* turns carry the source "agent".                                         *)
(***************************************************************************)
EXTENDS Integers, Sequences, FiniteSets, TLC

(* ------------------------------ bounds --------------------------------- *)
\* invocations of research() on the one team instance
MaxRuns == 2
\* agent messages of one run that are long or spell the keyword in lower case
MaxVaried == 1
\* longest input list given to truncate_conversation_history on its own
MaxLen == 3
\* largest max_tokens given to truncate_conversation_history on its own
MaxBudget == 12

(* ------------------------- program constants --------------------------- *)
\* TeamConfig.max_rounds default
DefaultMaxRounds == 12
\* self.max_context_tokens
max_context_tokens == 4000
\* `if len(conversation_history) > 10`
TruncateThreshold == 10
\* per-message formatting tokens in truncate_conversation_history
MessageOverhead == 4

\* token count of a long message: with its overhead it exceeds the budget
BigTok == max_context_tokens
\* max_rounds values a team is configured with
RoundsChoices == {1, 3, DefaultMaxRounds}

None == <<>>
Some(v) == <<v>>

VARIABLES
    pc,                    \* "idle", "running", "completed", "failed"
    max_rounds,            \* self.config.team.max_rounds
    task,                  \* the task text of the current invocation
    stream,                \* "none", "open", "terminated", "exhausted"
    emitted,               \* every item the stream has yielded, in order
    messages,              \* local `messages` of research()
    conversation_history,  \* local `conversation_history` of research()
    token_stats,           \* local `token_stats` of research()
    truncSteps,            \* loop steps (by len(messages)) that truncated
    metrics,               \* MetricsCollector.metrics
    seals,                 \* per metric: executions of end_task's body
    metric,                \* handle returned by start_task (index)
    now,                   \* time.time()
    outcome,               \* how the invocation left research()
    tpc, tin, tmax, tkeep, tout,  \* stand-alone truncation call
    spc, stask, sout,             \* stand-alone select_agents_for_task call
    clog, cseals, ccalls, cnow,   \* a MetricsCollector shared by its callers
    csummary,                     \* what its last get_summary call returned
    rpc, ritems, rhandle,         \* research() coroutines on one instance
    kpc, kexpr, kout,             \* stand-alone calculator call
    epc, earg, ecost,   \* stand-alone estimate_cost call
    redis, cops, cret,   \* a CacheManager, its redis store and its callers
    rtasks, queue, jpc, jdeliv, posts, posted, resp,   \* the research API, its task table and its job queue
    vpc, vmsgs, vsaved,   \* stream_and_save_messages: position, returned list, AgentMessage rows
    bpc, bargs, team   \* ResearchTeam(...): position, arguments, result

runVars == <<pc, max_rounds, task, stream, emitted, messages,
             conversation_history, token_stats, truncSteps, metrics, seals,
             metric, now, outcome>>
truncVars == <<tpc, tin, tmax, tkeep, tout>>
selVars == <<spc, stask, sout>>
collVars == <<clog, cseals, ccalls, cnow, csummary>>
concVars == <<rpc, ritems, rhandle>>
calcVars == <<kpc, kexpr, kout>>
costVars == <<epc, earg, ecost>>
cacheVars == <<redis, cops, cret>>
jobVars == <<rtasks, queue, jpc, jdeliv, posts, posted, resp>>
saveVars == <<vpc, vmsgs, vsaved>>
teamVars == <<bpc, bargs, team>>
vars == <<pc, max_rounds, task, stream, emitted, messages,
          conversation_history, token_stats, truncSteps, metrics, seals,
          metric, now, outcome, tpc, tin, tmax, tkeep, tout,
          spc, stask, sout, clog, cseals, ccalls, cnow, csummary,
          rpc, ritems, rhandle, kpc, kexpr, kout,
          epc, earg, ecost,
          redis, cops, cret,
          rtasks, queue, jpc, jdeliv, posts, posted, resp,
          vpc, vmsgs, vsaved,
          bpc, bargs, team>>

\* the variables of the stand-alone calls while another part is exercised
SelIdle == spc = "unused" /\ stask = <<>> /\ sout = <<>>
CollIdle ==
    clog = <<>> /\ cseals = <<>> /\ ccalls = <<>> /\ cnow = 0 /\ csummary = <<>>
ConcIdle == rpc = <<>> /\ ritems = <<>> /\ rhandle = <<>>
CalcIdle == kpc = "unused" /\ kexpr = <<>> /\ kout = <<>>
TeamIdle == bpc = "unused" /\ bargs = <<>> /\ team = <<>>
SaveIdle == vpc = "unused" /\ vmsgs = <<>> /\ vsaved = <<>>
JobIdle == rtasks = <<>> /\ queue = {} /\ jpc = <<>> /\ jdeliv = <<>> /\ posts = 0 /\ posted = <<>> /\ resp = 0
CacheIdle == redis = <<>> /\ cops = <<>> /\ cret = <<>>
CostIdle == epc = "unused" /\ earg = <<>> /\ ecost = <<>>

(* ------------------------------ texts ---------------------------------- *)
Keywords == {"", "terminate", "TERMINATE"}
Text(tok, kw) == [tok |-> tok, kw |-> kw]
\* task texts: non-empty (the caller validates), with or without the keyword
Tasks == {Text(2, kw) : kw \in {"", "TERMINATE"}}
\* what an agent turn may say
Contents == {Text(tok, kw) : tok \in {1, BigTok}, kw \in Keywords}

\* TokenCounter.count_tokens: 0 for the empty text, else len(encode(text))
count_tokens(text) == text.tok

\* `keyword in content` (case-sensitive substring test)
Mentions(content, keyword) == content.kw = keyword


(* ------------------------- utils/tokens.py ----------------------------- *)
\* the loop `for msg in reversed(messages)` of truncate_conversation_history:
\* number of messages kept, scanning rest[i], rest[i-1], ... until one does
\* not fit (`break`)
RECURSIVE KeptCount(_, _, _, _)
KeptCount(rest, i, total_tokens, max_tokens) ==
    IF i = 0 THEN 0
    ELSE LET msg_tokens == count_tokens(rest[i].content) + MessageOverhead
         IN  IF total_tokens + msg_tokens > max_tokens
             THEN 0
             ELSE 1 + KeptCount(rest, i - 1, total_tokens + msg_tokens, max_tokens)

\* the head of the list is split off as system message
HasSystemHead(msgs, keep_system) ==
    keep_system /\ msgs # <<>> /\ msgs[1].role = "system"

Reverse(s) == [i \in 1..Len(s) |-> s[Len(s) + 1 - i]]

\* variant: the system message is re-added only when it fits the budget
truncate_budgeting_system(msgs, max_tokens, keep_system) ==
    LET hasSystem == HasSystemHead(msgs, keep_system)
        rest == IF hasSystem THEN Tail(msgs) ELSE msgs
        start == IF hasSystem
                 THEN count_tokens(msgs[1].content) + MessageOverhead
                 ELSE 0
        k == KeptCount(rest, Len(rest), start, max_tokens)
        truncated == SubSeq(rest, Len(rest) - k + 1, Len(rest))
    IN  IF hasSystem /\ start <= max_tokens
        THEN <<msgs[1]>> \o truncated
        ELSE truncated

\* variant: `truncated.append(msg)` in place of `truncated.insert(0, msg)`
truncate_appending(msgs, max_tokens, keep_system) ==
    LET hasSystem == HasSystemHead(msgs, keep_system)
        rest == IF hasSystem THEN Tail(msgs) ELSE msgs
        start == IF hasSystem
                 THEN count_tokens(msgs[1].content) + MessageOverhead
                 ELSE 0
        k == KeptCount(rest, Len(rest), start, max_tokens)
        truncated == Reverse(SubSeq(rest, Len(rest) - k + 1, Len(rest)))
    IN  IF hasSystem THEN <<msgs[1]>> \o truncated ELSE truncated

\* variant: `total_tokens` stays 0 when a system message was split off
truncate_not_charging_system(msgs, max_tokens, keep_system) ==
    LET hasSystem == HasSystemHead(msgs, keep_system)
        rest == IF hasSystem THEN Tail(msgs) ELSE msgs
        k == KeptCount(rest, Len(rest), 0, max_tokens)
        truncated == SubSeq(rest, Len(rest) - k + 1, Len(rest))
    IN  IF hasSystem THEN <<msgs[1]>> \o truncated ELSE truncated

truncate_conversation_history(msgs, max_tokens, keep_system) ==
    LET hasSystem == HasSystemHead(msgs, keep_system)
        rest == IF hasSystem THEN Tail(msgs) ELSE msgs
        start == IF hasSystem
                 THEN count_tokens(msgs[1].content) + MessageOverhead
                 ELSE 0
        k == KeptCount(rest, Len(rest), start, max_tokens)
        truncated == SubSeq(rest, Len(rest) - k + 1, Len(rest))
    IN  IF hasSystem THEN <<msgs[1]>> \o truncated ELSE truncated

RECURSIVE SumTokens(_)
SumTokens(msgs) ==
    IF msgs = <<>> THEN 0
    ELSE count_tokens(msgs[1].content) + SumTokens(Tail(msgs))

RolesOf(msgs) == {msgs[i].role : i \in 1..Len(msgs)}

\* TokenCounter.get_token_stats (avg_tokens_per_message, a quotient of the
\* two fields kept here, is left out)
get_token_stats(msgs) ==
    [total_tokens |-> SumTokens(msgs),
     by_role |-> [r \in RolesOf(msgs) |->
                     SumTokens(SelectSeq(msgs, LAMBDA m : m.role = r))],
     message_count |-> Len(msgs)]

\* dict.update
Update(d, e) ==
    [k \in (DOMAIN d) \cup (DOMAIN e) |-> IF k \in DOMAIN e THEN e[k] ELSE d[k]]

(* ------------------------- utils/metrics.py ---------------------------- *)
\* AgentMetrics(agent_name, task, start_time) with the dataclass defaults
AgentMetrics(agent_name, t, start_time) ==
    [agent_name |-> agent_name, task |-> t, start_time |-> start_time,
     end_time |-> None, success |-> FALSE, error |-> None,
     tokens_used |-> 0, response_length |-> 0, metadata |-> {}]

\* parameters of MetricsCollector.end_task; a call naming any other keyword
\* raises TypeError before the body runs
EndTaskParams ==
    {"metric", "success", "error", "tokens_used", "response_length", "metadata"}
Binds(keywords) == keywords \subseteq EndTaskParams

\* body of MetricsCollector.end_task (metadata is never passed)
end_task(m, success, error, tokens_used, response_length, t) ==
    [m EXCEPT !.end_time = Some(t), !.success = success, !.error = error,
              !.tokens_used = tokens_used,
              !.response_length = response_length]

(* ----------------------------- exceptions ------------------------------ *)
Exc(type, text) == [type |-> type, text |-> text]
\* what a model or agent call may raise during a turn
ModelErrors == {Exc("EndpointError", "model endpoint failed"),
                Exc("TimeoutError", "request timed out")}
UnexpectedKeyword ==
    Exc("TypeError", "end_task() got an unexpected keyword argument 'token_usage'")
\* str(e)
Str(e) == e.text


(* --------------------- the conversation stream ------------------------- *)
\* a chat message: an item with both a `source` and a `content`
Message(source, content) ==
    [hasSource |-> TRUE, hasContent |-> TRUE, source |-> source,
     content |-> content]
\* the closing item of run_stream: it has neither attribute
TaskResult ==
    [hasSource |-> FALSE, hasContent |-> FALSE, source |-> "",
     content |-> Text(0, "")]

IsMessage(item) == item.hasSource /\ item.hasContent

\* TextMentionTermination("TERMINATE")
TextMentionTermination(content) == Mentions(content, "TERMINATE")
\* MaxMessageTermination(self.config.team.max_rounds)
MaxMessageTermination(count) == count >= max_rounds
\* variant: the two conditions combined with & in place of |
termination_and(content, count) ==
    TextMentionTermination(content) /\ MaxMessageTermination(count)

\* self.termination = TextMentionTermination(...) | MaxMessageTermination(...)
termination(content, count) ==
    TextMentionTermination(content) \/ MaxMessageTermination(count)

\* a message other than a short one without the lower-case keyword
Varied(content) == content.tok = BigTok \/ content.kw = "terminate"
VariedCount ==
    Cardinality({i \in 2..Len(emitted) : Varied(emitted[i].content)})

\* the items the stream may yield next: the task message first, then one
\* chat message per agent turn
NextItems ==
    IF emitted = <<>>
    THEN {Message("user", task)}
    ELSE {Message("agent", c) : c \in
            {d \in Contents : Varied(d) => VariedCount < MaxVaried}}

(* ------------------- ResearchTeam.research ----------------------------- *)
ZeroStats == [input_tokens |-> 0, output_tokens |-> 0, total_tokens |-> 0]

\* variant: the truncated history is also written back to `messages`
LoopBodyTruncatingMessages(item) ==
    LET tracked == item.hasSource /\ item.hasContent
        history1 == IF tracked
                    THEN Append(conversation_history,
                                [role |-> item.source, content |-> item.content])
                    ELSE conversation_history
        content_tokens == count_tokens(item.content)
        truncates == Len(history1) > TruncateThreshold
        kept == Len(truncate_conversation_history(history1, max_context_tokens, TRUE))
        all == Append(messages, item)
    IN  /\ messages' = IF truncates
                       THEN SubSeq(all, Len(all) - kept + 1, Len(all))
                       ELSE all
        /\ token_stats' = IF tracked
                          THEN [token_stats EXCEPT !.output_tokens = @ + content_tokens]
                          ELSE token_stats
        /\ conversation_history' =
              IF truncates
              THEN truncate_conversation_history(history1, max_context_tokens, TRUE)
              ELSE history1
        /\ truncSteps' = IF truncates
                         THEN truncSteps \cup {Len(messages) + 1}
                         ELSE truncSteps

\* body of `async for message in stream`
LoopBody(item) ==
    LET tracked == item.hasSource /\ item.hasContent
        history1 == IF tracked
                    THEN Append(conversation_history,
                                [role |-> item.source, content |-> item.content])
                    ELSE conversation_history
        content_tokens == count_tokens(item.content)
        truncates == Len(history1) > TruncateThreshold
    IN  /\ messages' = Append(messages, item)
        /\ token_stats' = IF tracked
                          THEN [token_stats EXCEPT !.output_tokens = @ + content_tokens]
                          ELSE token_stats
        /\ conversation_history' =
              IF truncates
              THEN truncate_conversation_history(history1, max_context_tokens, TRUE)
              ELSE history1
        /\ truncSteps' = IF truncates
                         THEN truncSteps \cup {Len(messages) + 1}
                         ELSE truncSteps

\* variant: the handler seals the metric without the error text
ExceptHandlerWithoutError(e) ==
    /\ metrics' = [metrics EXCEPT
                     ![metric] = end_task(@, FALSE, None, 0, 0, now)]
    /\ seals' = [seals EXCEPT ![metric] = @ + 1]
    /\ now' = now + 1
    /\ pc' = "failed"
    /\ outcome' = [kind |-> "raised", value |-> e]

\* variant: the handler re-raises without calling end_task
ExceptHandlerWithoutSeal(e) ==
    /\ UNCHANGED <<metrics, seals, now>>
    /\ pc' = "failed"
    /\ outcome' = [kind |-> "raised", value |-> e]

\* `except Exception as e:` end_task(metric, success=False, error=str(e)); raise
ExceptHandler(e) ==
    /\ metrics' = [metrics EXCEPT
                     ![metric] = end_task(@, FALSE, Some(Str(e)), 0, 0, now)]
    /\ seals' = [seals EXCEPT ![metric] = @ + 1]
    /\ now' = now + 1
    /\ pc' = "failed"
    /\ outcome' = [kind |-> "raised", value |-> e]

\* keywords of the call end_task(metric, success=True, response_length=...,
\* token_usage=...)
SuccessCallKeywords == {"metric", "success", "response_length", "token_usage"}

\* research() up to `stream = team.run_stream(task=task)`
Invoke ==
    /\ pc \in {"idle", "completed", "failed"}
    /\ Len(metrics) < MaxRuns
    /\ \E t \in Tasks :
         /\ task' = t
         /\ metrics' = Append(metrics, AgentMetrics("ResearchTeam", t, now))
    /\ seals' = Append(seals, 0)
    /\ metric' = Len(metrics) + 1
    /\ now' = now + 1
    /\ token_stats' = ZeroStats
    /\ messages' = <<>>
    /\ conversation_history' = <<>>
    /\ emitted' = <<>>
    /\ truncSteps' = {}
    /\ stream' = "open"
    /\ pc' = "running"
    /\ outcome' = [kind |-> "none", value |-> None]
    /\ UNCHANGED <<max_rounds, tpc, tin, tmax, tkeep, tout,
                   selVars, collVars, concVars, calcVars, teamVars, saveVars, jobVars, cacheVars, costVars>>

\* the stream yields a chat message and the loop body handles it
StreamMessage ==
    /\ pc = "running"
    /\ stream = "open"
    /\ \E item \in NextItems :
         /\ emitted' = Append(emitted, item)
         /\ LoopBody(item)
         /\ stream' = IF termination(item.content, Len(emitted) + 1)
                      THEN "terminated"
                      ELSE "open"
    /\ UNCHANGED <<pc, max_rounds, task, metrics, seals, metric, now, outcome,
                   tpc, tin, tmax, tkeep, tout,
                   selVars, collVars, concVars, calcVars, teamVars, saveVars, jobVars, cacheVars, costVars>>

\* after termination the stream yields its TaskResult; the loop body runs
StreamResult ==
    /\ pc = "running"
    /\ stream = "terminated"
    /\ emitted' = Append(emitted, TaskResult)
    /\ LoopBody(TaskResult)
    /\ stream' = "exhausted"
    /\ UNCHANGED <<pc, max_rounds, task, metrics, seals, metric, now, outcome,
                   tpc, tin, tmax, tkeep, tout,
                   selVars, collVars, concVars, calcVars, teamVars, saveVars, jobVars, cacheVars, costVars>>

\* a model or agent call raises during an agent turn
Raise ==
    /\ pc = "running"
    /\ stream = "open"
    /\ emitted # <<>>
    /\ \E e \in ModelErrors : ExceptHandler(e)
    /\ stream' = "aborted"
    /\ UNCHANGED <<max_rounds, task, emitted, messages, conversation_history,
                   token_stats, truncSteps, metric, tpc, tin, tmax, tkeep, tout,
                   selVars, collVars, concVars, calcVars, teamVars, saveVars, jobVars, cacheVars, costVars>>

\* the stream is exhausted: final statistics, end_task, return
Finish ==
    /\ pc = "running"
    /\ stream = "exhausted"
    /\ LET input_task_tokens == count_tokens(task)
           counted == [token_stats EXCEPT
                         !.input_tokens = input_task_tokens,
                         !.total_tokens = input_task_tokens + token_stats.output_tokens]
           final == Update(counted, get_token_stats(conversation_history))
       IN  /\ token_stats' = final
           /\ IF Binds(SuccessCallKeywords)
              THEN /\ metrics' = [metrics EXCEPT ![metric] =
                                    end_task(@, TRUE, None, 0, Len(messages), now)]
                   /\ seals' = [seals EXCEPT ![metric] = @ + 1]
                   /\ now' = now + 1
                   /\ pc' = "completed"
                   /\ outcome' = [kind |-> "returned", value |-> <<messages, final>>]
              ELSE ExceptHandler(UnexpectedKeyword)
    /\ UNCHANGED <<max_rounds, task, stream, emitted, messages,
                   conversation_history, truncSteps, metric,
                   tpc, tin, tmax, tkeep, tout,
                   selVars, collVars, concVars, calcVars, teamVars, saveVars, jobVars, cacheVars, costVars>>

\* research() not invoked on a team with the default configuration
RunIdle ==
    /\ pc = "idle"
    /\ max_rounds = DefaultMaxRounds
    /\ task = Text(0, "")
    /\ stream = "none"
    /\ emitted = <<>>
    /\ messages = <<>>
    /\ conversation_history = <<>>
    /\ token_stats = ZeroStats
    /\ truncSteps = {}
    /\ metrics = <<>>
    /\ seals = <<>>
    /\ metric = 0
    /\ now = 0
    /\ outcome = [kind |-> "none", value |-> None]

TruncIdle ==
    /\ tpc = "unused" /\ tin = <<>> /\ tmax = 0 /\ tkeep = FALSE /\ tout = <<>>

Init ==
    /\ pc = "idle"
    /\ max_rounds \in RoundsChoices
    /\ task = Text(0, "")
    /\ stream = "none"
    /\ emitted = <<>>
    /\ messages = <<>>
    /\ conversation_history = <<>>
    /\ token_stats = ZeroStats
    /\ truncSteps = {}
    /\ metrics = <<>>
    /\ seals = <<>>
    /\ metric = 0
    /\ now = 0
    /\ outcome = [kind |-> "none", value |-> None]
    /\ TruncIdle
    /\ SelIdle /\ CollIdle /\ ConcIdle /\ CalcIdle /\ TeamIdle /\ SaveIdle /\ JobIdle /\ CacheIdle /\ CostIdle

Next == Invoke \/ StreamMessage \/ StreamResult \/ Raise \/ Finish

Spec == Init /\ [][Next]_vars

(* ---------- truncate_conversation_history called on its own ------------ *)
TRoles == {"system", "user", "assistant"}
TToks == {0, 7}
TruncInputs ==
    UNION {{[i \in 1..n |-> [role |-> f[i][1], content |-> Text(f[i][2], ""),
                             id |-> i]] : f \in [1..n -> TRoles \X TToks]}
           : n \in 0..MaxLen}

TruncInit ==
    /\ pc = "idle"
    /\ max_rounds = DefaultMaxRounds
    /\ task = Text(0, "")
    /\ stream = "none"
    /\ emitted = <<>>
    /\ messages = <<>>
    /\ conversation_history = <<>>
    /\ token_stats = ZeroStats
    /\ truncSteps = {}
    /\ metrics = <<>>
    /\ seals = <<>>
    /\ metric = 0
    /\ now = 0
    /\ outcome = [kind |-> "none", value |-> None]
    /\ tpc = "call"
    /\ tin \in TruncInputs
    /\ tmax \in 0..MaxBudget
    /\ tkeep \in BOOLEAN
    /\ tout = <<>>
    /\ SelIdle /\ CollIdle /\ ConcIdle /\ CalcIdle /\ TeamIdle /\ SaveIdle /\ JobIdle /\ CacheIdle /\ CostIdle

TruncCall ==
    /\ tpc = "call"
    /\ tout' = truncate_conversation_history(tin, tmax, tkeep)
    /\ tpc' = "done"
    /\ UNCHANGED <<pc, max_rounds, task, stream, emitted, messages,
                   conversation_history, token_stats, truncSteps, metrics,
                   seals, metric, now, outcome, tin, tmax, tkeep,
                   selVars, collVars, concVars, calcVars, teamVars, saveVars, jobVars, cacheVars, costVars>>

TruncNext == TruncCall

TruncSpec == TruncInit /\ [][TruncNext]_vars


(* ============================ properties =============================== *)
CurrentMetric == metrics[metric]
\* the run's stream ended through termination and research() has left
EndedAfterStream == stream = "exhausted" /\ pc # "running"
\* chat messages among the entries of a list
MessageCount(items) ==
    Cardinality({i \in 1..Len(items) : IsMessage(items[i])})

\* C1: when the stream ends through a termination condition and no model or
\* tool call raised, research() returns (messages, token statistics) and the
\* Metric of the invocation is sealed with success=True and no error.
C1_NormalEndCompletes ==
    EndedAfterStream =>
        /\ pc = "completed"
        /\ outcome.kind = "returned"
        /\ outcome.value = <<messages, token_stats>>
        /\ CurrentMetric.success = TRUE
        /\ CurrentMetric.error = None

\* C2: when a model or agent call raises during a turn, the exception
\* propagates to the caller and the Metric of the invocation has
\* success=False, error = str(exception) and end_time set.
C2_RaiseFailsRun ==
    stream = "aborted" =>
        /\ pc = "failed"
        /\ outcome.kind = "raised"
        /\ outcome.value \in ModelErrors
        /\ CurrentMetric.success = FALSE
        /\ CurrentMetric.error = Some(Str(outcome.value))
        /\ CurrentMetric.end_time # None

\* the model raised on the third turn of the stream, after two messages
C2_Witness ==
    /\ stream = "aborted"
    /\ Len(messages) = 2
    /\ pc = "failed"
    /\ CurrentMetric.error = Some("model endpoint failed")

C4_AtMostMaxRounds ==
    stream = "exhausted" => Len(messages) <= max_rounds

\* C5: the run stops on the first message containing the exact token
\* "TERMINATE": no chat message follows it in the list, the stream is closed
\* to further turns as soon as that message or the max_rounds-th message is
\* produced, and it closes for no other reason (a differently spelled
\* "terminate" does not stop it).
C5_StopsOnFirstMention ==
    /\ \A i \in 1..Len(messages) :
          (IsMessage(messages[i]) /\ Mentions(messages[i].content, "TERMINATE")) =>
              /\ stream # "open"
              /\ \A j \in (i + 1)..Len(messages) : ~IsMessage(messages[j])
    /\ MessageCount(messages) >= max_rounds => stream # "open"
    /\ stream \in {"terminated", "exhausted"} =>
          LET last == MessageCount(messages)
          IN  /\ last >= 1
              /\ \/ Mentions(messages[last].content, "TERMINATE")
                 \/ last >= max_rounds

\* a lower-case "terminate" did not stop the run, the "TERMINATE" after it did
C5_Witness ==
    /\ stream = "exhausted"
    /\ max_rounds = DefaultMaxRounds
    /\ Len(messages) = 4
    /\ Mentions(messages[2].content, "terminate")
    /\ Mentions(messages[3].content, "TERMINATE")
    /\ ~IsMessage(messages[4])

\* C6: in the final statistics total_tokens = input_tokens + output_tokens,
\* input_tokens being the token count of the task and output_tokens the sum
\* over the streamed messages.
C6_TotalIsInputPlusOutput ==
    EndedAfterStream =>
        /\ token_stats.input_tokens = count_tokens(task)
        /\ token_stats.output_tokens =
              SumTokens(SelectSeq(messages, IsMessage))
        /\ token_stats.total_tokens =
              token_stats.input_tokens + token_stats.output_tokens

\* C7 (as claimed): with keep_system=True no message whose role is system is
\* dropped, whatever the input list and max_tokens.
C7_KeepsEverySystemMessage ==
    (tpc = "done" /\ tkeep) =>
        \A i \in 1..Len(tin) : tin[i].role = "system" =>
            \E j \in 1..Len(tout) : tout[j] = tin[i]

\* C7 (amended): with keep_system=True the message at the head of the input
\* list, when its role is system, is the head of the output, whatever
\* max_tokens is.
C7_KeepsSystemHead ==
    (tpc = "done" /\ tkeep /\ tin # <<>> /\ tin[1].role = "system") =>
        tout # <<>> /\ tout[1] = tin[1]

\* the system head alone exceeds the budget and is all that is kept
C7_Witness ==
    /\ tpc = "done"
    /\ tkeep
    /\ Len(tin) = 3
    /\ tin[1].role = "system"
    /\ count_tokens(tin[1].content) + MessageOverhead > tmax
    /\ tout = <<tin[1]>>

\* C8: the output is the preserved system head (if any) followed by a
\* contiguous suffix of the remaining input messages, unchanged and in
\* their original order.
C8_SystemHeadThenSuffix ==
    tpc = "done" =>
        LET hasSystem == tkeep /\ tin # <<>> /\ tin[1].role = "system"
            rest == IF hasSystem THEN Tail(tin) ELSE tin
            body == IF hasSystem /\ tout # <<>> THEN Tail(tout) ELSE tout
        IN  /\ hasSystem => (tout # <<>> /\ tout[1] = tin[1])
            /\ Len(body) <= Len(rest)
            /\ body = SubSeq(rest, Len(rest) - Len(body) + 1, Len(rest))

\* a system head, the older message after it dropped, the newest kept
C8_Witness ==
    /\ tpc = "done"
    /\ tkeep
    /\ Len(tin) >= 3
    /\ tin[1].role = "system"
    /\ Len(tout) = Len(tin) - 1
    /\ tout[2] = tin[3]

\* C9: the list of the run holds every item the stream emitted, once each
\* and in emission order; truncating the working history leaves it alone.
C9_MessagesAreTheEmittedItems ==
    messages = emitted

\* the run ended after a truncation that dropped history entries
C9_Witness ==
    /\ stream = "exhausted"
    /\ truncSteps # {}
    /\ Len(conversation_history) < MessageCount(messages)
    /\ Len(messages) = max_rounds + 1

\* C10: truncation is applied at exactly the loop steps where the number of
\* messages recorded so far is a multiple of 10.
C10_TruncatesEveryTenth ==
    \A k \in 1..Len(messages) : (k \in truncSteps) <=> (k % 10 = 0)

(* ------------- the context of the agents' model calls ------------------ *)
\* history entries as the loop body builds them from stream items
AsHistory(items) ==
    [i \in 1..Len(items) |-> [role |-> items[i].source, content |-> items[i].content]]

\* The conversation an agent is given for its next turn.  research() hands
\* the team nothing but the task (`team.run_stream(task=task)`), so the team
\* works on its own thread: every chat message of the stream so far.
ModelContext == AsHistory(SelectSeq(emitted, IsMessage))

\* cost of a context as truncate_conversation_history counts it
ContextCost(history) == SumTokens(history) + MessageOverhead * Len(history)

\* C11: after a truncation step the context given to the next agent turn is
\* the truncated working history, so its cost is within max_context_tokens.
C11_NextTurnSeesTruncatedView ==
    (pc = "running" /\ stream = "open" /\ truncSteps # {}) =>
        /\ ModelContext = conversation_history
        /\ ContextCost(ModelContext) <= max_context_tokens

(* --------------- ResearchTeam.select_agents_for_task ------------------- *)
\* A task text is a sequence of characters; the words below are joined by
\* blanks into the texts the selector is called with.
\* words of a task text the selector is exercised with
MaxWords == 2

\* the letters that str.lower() changes in the texts used here
LowerOf ==
    [c \in {"A", "D", "E", "G", "N", "P", "R", "T", "W"} |->
        CASE c = "A" -> "a" [] c = "D" -> "d" [] c = "E" -> "e" [] c = "G" -> "g"
          [] c = "N" -> "n" [] c = "P" -> "p" [] c = "R" -> "r" [] c = "T" -> "t"
          [] c = "W" -> "w"]
\* str.lower()
LowerText(text) ==
    [i \in 1..Len(text) |->
        IF text[i] \in DOMAIN LowerOf THEN LowerOf[text[i]] ELSE text[i]]

\* `word in text` on strings
IsSubstring(word, text) ==
    \E i \in 0..(Len(text) - Len(word)) : SubSeq(text, i + 1, i + Len(word)) = word

\* the keyword list of the analysis test
AnalysisKeywords ==
    {<<"a", "n", "a", "l", "y", "z", "e">>,
     <<"a", "n", "a", "l", "y", "s", "i", "s">>,
     <<"t", "r", "e", "n", "d">>,
     <<"p", "a", "t", "t", "e", "r", "n">>,
     <<"d", "a", "t", "a">>,
     <<"s", "t", "a", "t", "i", "s", "t", "i", "c", "s">>,
     <<"c", "o", "m", "p", "a", "r", "e">>}

\* the keyword list of the writing test
WritingKeywords ==
    {<<"w", "r", "i", "t", "e">>,
     <<"e", "x", "p", "l", "a", "i", "n">>,
     <<"s", "u", "m", "m", "a", "r", "i", "z", "e">>,
     <<"d", "o", "c", "u", "m", "e", "n", "t">>,
     <<"r", "e", "p", "o", "r", "t">>}

\* the literal of `elif "write" not in task_lower`
WriteLiteral == <<"w", "r", "i", "t", "e">>

Word_hello == <<"h", "e", "l", "l", "o">>
Word_Analyze == <<"A", "n", "a", "l", "y", "z", "e">>
Word_TREND == <<"T", "R", "E", "N", "D">>
Word_database == <<"d", "a", "t", "a", "b", "a", "s", "e">>
Word_Write == <<"W", "r", "i", "t", "e">>
Word_rewrite == <<"r", "e", "w", "r", "i", "t", "e">>
Word_summarize == <<"s", "u", "m", "m", "a", "r", "i", "z", "e">>
Word_Report == <<"R", "e", "p", "o", "r", "t">>
Word_writ == <<"w", "r", "i", "t">>

\* words of the task texts: plain, keywords in mixed case, keywords inside
\* longer words, a fragment of a keyword
Vocabulary ==
    {Word_hello, Word_Analyze, Word_TREND, Word_database, Word_Write, Word_rewrite, Word_summarize, Word_Report, Word_writ}

WordLists == UNION {[1..n -> Vocabulary] : n \in 0..MaxWords}

\* the words joined by single blanks
RECURSIVE Join(_)
Join(words) ==
    IF words = <<>> THEN <<>>
    ELSE IF Len(words) = 1 THEN words[1]
    ELSE words[1] \o <<" ">> \o Join(Tail(words))

\* body of select_agents_for_task after `task_lower = task.lower()`
SelectFrom(task_lower, analysis_words, writing_words) ==
    LET first == <<"researcher">>
        second == IF \E w \in analysis_words : IsSubstring(w, task_lower)
                  THEN Append(first, "analyst")
                  ELSE first
        third == IF \E w \in writing_words : IsSubstring(w, task_lower)
                 THEN Append(second, "writer")
                 ELSE IF ~IsSubstring(WriteLiteral, task_lower)
                      THEN Append(second, "writer")
                      ELSE second
    IN  Append(third, "critic")

\* variant: the keywords are looked up in the task text as given
select_case_sensitive(text) ==
    SelectFrom(text, AnalysisKeywords, WritingKeywords)

\* variant: "write" is missing from the writing keywords
select_without_write_keyword(text) ==
    SelectFrom(LowerText(text), AnalysisKeywords, WritingKeywords \ {WriteLiteral})

\* variant: the default inclusion is an `if` of its own, not an `elif`
select_writer_twice(text) ==
    LET task_lower == LowerText(text)
        first == <<"researcher">>
        second == IF \E w \in AnalysisKeywords : IsSubstring(w, task_lower)
                  THEN Append(first, "analyst")
                  ELSE first
        third == IF \E w \in WritingKeywords : IsSubstring(w, task_lower)
                 THEN Append(second, "writer")
                 ELSE second
        fourth == IF ~IsSubstring(WriteLiteral, task_lower)
                  THEN Append(third, "writer")
                  ELSE third
    IN  Append(fourth, "critic")

select_agents_for_task(text) ==
    SelectFrom(LowerText(text), AnalysisKeywords, WritingKeywords)

SelInit ==
    /\ RunIdle /\ TruncIdle /\ CollIdle /\ ConcIdle /\ CalcIdle /\ TeamIdle /\ SaveIdle /\ JobIdle /\ CacheIdle /\ CostIdle
    /\ spc = "call"
    /\ stask \in WordLists
    /\ sout = <<>>

SelCall ==
    /\ spc = "call"
    /\ sout' = select_agents_for_task(Join(stask))
    /\ spc' = "done"
    /\ UNCHANGED <<runVars, truncVars, collVars, concVars, calcVars, teamVars, saveVars, jobVars, cacheVars, costVars, stask>>

SelNext == SelCall

SelSpec == SelInit /\ [][SelNext]_vars

\* words known to carry an analysis keyword, in whatever case
AnalysisBearing == {Word_Analyze, Word_TREND, Word_database}
MentionsAnalysis(words) == \E i \in 1..Len(words) : words[i] \in AnalysisBearing
\* words known to carry the letters "write", in whatever case
WriteBearing == {Word_Write, Word_rewrite}
Selected == {sout[i] : i \in 1..Len(sout)}
Rank(agent) ==
    CASE agent = "researcher" -> 1 [] agent = "analyst" -> 2
      [] agent = "writer" -> 3 [] agent = "critic" -> 4

\* C12: for every task text the researcher is first, the critic is last, no
\* agent appears twice and the agents stand in the order researcher,
\* analyst, writer, critic.
C12_FixedOrderNoRepeat ==
    spc = "done" =>
        /\ sout[1] = "researcher"
        /\ sout[Len(sout)] = "critic"
        /\ Cardinality(Selected) = Len(sout)
        /\ \A i, j \in 1..Len(sout) : i < j => Rank(sout[i]) < Rank(sout[j])

\* a text with a writing keyword and no "write": both writer tests pass
C12_Witness ==
    /\ spc = "done"
    /\ stask = <<Word_summarize, Word_TREND>>
    /\ Len(sout) = 4

\* C13: the analyst is selected exactly for the texts that contain an
\* analysis keyword, in any case and inside longer words; it then stands
\* right after the researcher, before the writer and the critic.
C13_AnalystIffKeyword ==
    spc = "done" =>
        /\ ("analyst" \in Selected) <=> MentionsAnalysis(stask)
        /\ MentionsAnalysis(stask) =>
              /\ sout[1] = "researcher"
              /\ sout[2] = "analyst"
              /\ \A i \in 1..Len(sout) : sout[i] \in {"writer", "critic"} => i > 2

\* a keyword spelled in upper case
C13_Witness ==
    /\ spc = "done"
    /\ stask = <<Word_TREND, Word_hello>>
    /\ sout[2] = "analyst"

\* C14: the selection is [researcher, writer, critic] without an analysis
\* keyword and [researcher, analyst, writer, critic] with one; the writer is
\* selected for every text, those containing "write" included.
C14_WriterAlwaysSelected ==
    spc = "done" =>
        sout = IF MentionsAnalysis(stask)
               THEN <<"researcher", "analyst", "writer", "critic">>
               ELSE <<"researcher", "writer", "critic">>

\* a text containing "write" only inside another word
C14_Witness ==
    /\ spc = "done"
    /\ \E i \in 1..Len(stask) : stask[i] = Word_rewrite
    /\ \A i \in 1..Len(stask) : stask[i] \in WriteBearing
    /\ sout = <<"researcher", "writer", "critic">>

(* ------------- research() coroutines on one team instance -------------- *)
\* coroutines of research() started on the one instance
MaxCoroutines == 2
\* stream items one coroutine consumes before it leaves the loop
MaxItems == 3

Coroutines == 1..MaxCoroutines

\* what ends an invocation: a raise during a turn, or the failed success call
RunErrors == ModelErrors \cup {UnexpectedKeyword}

ConcInit ==
    /\ RunIdle /\ TruncIdle /\ SelIdle /\ CalcIdle /\ TeamIdle /\ SaveIdle /\ JobIdle /\ CacheIdle /\ CostIdle
    /\ CollIdle
    /\ rpc = [r \in Coroutines |-> "idle"]
    /\ ritems = [r \in Coroutines |-> 0]
    /\ rhandle = [r \in Coroutines |-> 0]

\* research() is called: start_task, agent selection, team and stream.
\* Nothing on this path looks at other invocations of the instance.
ConcInvoke(r) ==
    /\ rpc[r] = "idle"
    /\ \E t \in Tasks :
         /\ clog' = Append(clog, AgentMetrics("ResearchTeam", t, cnow))
         /\ ccalls' = Append(ccalls, <<"ResearchTeam", t>>)
    /\ cseals' = Append(cseals, 0)
    /\ cnow' = cnow + 1
    /\ rhandle' = [rhandle EXCEPT ![r] = Len(clog) + 1]
    /\ rpc' = [rpc EXCEPT ![r] = "running"]
    /\ UNCHANGED <<runVars, truncVars, selVars, calcVars, teamVars, saveVars, jobVars, cacheVars, costVars, csummary, ritems>>

\* `async for message in stream` receives an item; the coroutine was
\* suspended until then and others ran
ConcItem(r) ==
    /\ rpc[r] = "running"
    /\ ritems[r] < MaxItems
    /\ ritems' = [ritems EXCEPT ![r] = @ + 1]
    /\ UNCHANGED <<runVars, truncVars, selVars, calcVars, teamVars, saveVars, jobVars, cacheVars, costVars, collVars, rpc, rhandle>>

\* the coroutine leaves the loop (a raise, or the end of the stream followed
\* by the end_task call) and the except branch seals its metric
ConcEnd(r) ==
    /\ rpc[r] = "running"
    /\ ritems[r] >= 1
    /\ \E e \in RunErrors :
         /\ (e = UnexpectedKeyword) => ~Binds(SuccessCallKeywords)
         /\ clog' = [clog EXCEPT ![rhandle[r]] =
                        end_task(@, FALSE, Some(Str(e)), 0, 0, cnow)]
    /\ cseals' = [cseals EXCEPT ![rhandle[r]] = @ + 1]
    /\ cnow' = cnow + 1
    /\ rpc' = [rpc EXCEPT ![r] = "ended"]
    /\ UNCHANGED <<runVars, truncVars, selVars, calcVars, teamVars, saveVars, jobVars, cacheVars, costVars, ccalls, csummary,
                   ritems, rhandle>>

ConcNext ==
    \E r \in Coroutines : ConcInvoke(r) \/ ConcItem(r) \/ ConcEnd(r)

ConcSpec == ConcInit /\ [][ConcNext]_vars

\* C15: at most one invocation of research() on the instance is in its turn
\* loop at any time.
C15_AtMostOneActiveRun ==
    Cardinality({r \in DOMAIN rpc : rpc[r] = "running"}) <= 1

(* ---------------- MetricsCollector used by several callers -------------- *)
\* start_task calls made on the collector
MaxStarted == 2
\* end_task calls made on the collector: one handle may be ended again
MaxEnded == MaxStarted + 1

AgentNames == {"Agent1", "Agent2"}
CollTask == Text(2, "")

\* arguments callers give end_task
EndArgs ==
    {[success |-> TRUE, error |-> None, tokens_used |-> 50, response_length |-> 500],
     [success |-> TRUE, error |-> None, tokens_used |-> 30, response_length |-> 0],
     [success |-> FALSE, error |-> Some("Test error"), tokens_used |-> 0,
      response_length |-> 0]}

\* AgentMetrics.duration
duration(m) == IF m.end_time = None THEN 0 ELSE m.end_time[1] - m.start_time

RECURSIVE Sum(_)
Sum(nums) == IF nums = <<>> THEN 0 ELSE nums[1] + Sum(Tail(nums))

RECURSIVE GCD(_, _)
GCD(a, b) == IF b = 0 THEN a ELSE GCD(b, a % b)
\* the quotient n / d of true division, as a fraction in lowest terms
TrueDiv(n, d) == <<n \div GCD(n, d), d \div GCD(n, d)>>
Zero == <<0, 1>>

total_tasks(log) == Len(log)
successful_tasks(log) == Len(SelectSeq(log, LAMBDA m : m.success))
failed_tasks_among_ended(log) ==
    Len(SelectSeq(log, LAMBDA m : m.end_time # None /\ ~m.success))
failed_tasks(log) == total_tasks(log) - successful_tasks(log)
total_duration(log) ==
    LET ended == SelectSeq(log, LAMBDA m : m.end_time # None)
    IN  Sum([i \in 1..Len(ended) |-> duration(ended[i])])
total_tokens(log) == Sum([i \in 1..Len(log) |-> log[i].tokens_used])

NewAgentStats ==
    [total_tasks |-> 0, successful_tasks |-> 0, total_duration |-> 0,
     total_tokens |-> 0]
\* one pass of the loop body over a metric
Tally(stats, m) ==
    [total_tasks |-> stats.total_tasks + 1,
     successful_tasks |-> stats.successful_tasks + (IF m.success THEN 1 ELSE 0),
     total_duration |-> stats.total_duration + duration(m),
     total_tokens |-> stats.total_tokens + m.tokens_used]

RECURSIVE agent_stats_skipping_first(_)
agent_stats_skipping_first(log) ==
    IF log = <<>> THEN <<>>
    ELSE LET before == agent_stats_skipping_first(SubSeq(log, 1, Len(log) - 1))
             m == log[Len(log)]
         IN  [a \in DOMAIN before \cup {m.agent_name} |->
                 IF a # m.agent_name THEN before[a]
                 ELSE IF a \in DOMAIN before THEN Tally(before[a], m)
                 ELSE NewAgentStats]
\* the loop `for metric in self.metrics`
RECURSIVE agent_stats(_)
agent_stats(log) ==
    IF log = <<>> THEN <<>>
    ELSE LET before == agent_stats(SubSeq(log, 1, Len(log) - 1))
             m == log[Len(log)]
         IN  [a \in DOMAIN before \cup {m.agent_name} |->
                 IF a # m.agent_name THEN before[a]
                 ELSE Tally(IF a \in DOMAIN before THEN before[a]
                            ELSE NewAgentStats, m)]

get_summary(log, session_start, t) ==
    [session_duration |-> t - session_start,
     total_tasks |-> total_tasks(log),
     successful_tasks |-> successful_tasks(log),
     failed_tasks |-> failed_tasks(log),
     success_rate |-> IF total_tasks(log) > 0
                      THEN TrueDiv(successful_tasks(log), total_tasks(log))
                      ELSE Zero,
     total_duration |-> total_duration(log),
     total_tokens |-> total_tokens(log),
     avg_task_duration |-> IF total_tasks(log) > 0
                           THEN TrueDiv(total_duration(log), total_tasks(log))
                           ELSE Zero,
     agent_statistics |-> agent_stats(log)]

CollInit ==
    /\ RunIdle /\ TruncIdle /\ SelIdle /\ ConcIdle /\ CalcIdle /\ TeamIdle /\ SaveIdle /\ JobIdle /\ CacheIdle /\ CostIdle
    /\ CollIdle

\* MetricsCollector.start_task(agent_name, task)
CollStart(agent_name, t) ==
    /\ Len(clog) < MaxStarted
    /\ clog' = Append(clog, AgentMetrics(agent_name, t, cnow))
    /\ cseals' = Append(cseals, 0)
    /\ ccalls' = Append(ccalls, <<agent_name, t>>)
    /\ cnow' = cnow + 1
    /\ csummary' = None
    /\ UNCHANGED <<runVars, truncVars, selVars, concVars, calcVars, teamVars, saveVars, jobVars, cacheVars, costVars>>

CollEndOnLast(h, a) ==
    /\ h \in 1..Len(clog)
    /\ Sum(cseals) < MaxEnded
    /\ clog' = [clog EXCEPT ![Len(clog)] =
                   end_task(@, a.success, a.error, a.tokens_used,
                            a.response_length, cnow)]
    /\ cseals' = [cseals EXCEPT ![h] = @ + 1]
    /\ cnow' = cnow + 1
    /\ csummary' = None
    /\ UNCHANGED <<runVars, truncVars, selVars, concVars, calcVars, teamVars, saveVars, jobVars, cacheVars, costVars, ccalls>>
\* MetricsCollector.end_task(metric, ...) on a handle start_task returned
CollEnd(h, a) ==
    /\ h \in 1..Len(clog)
    /\ Sum(cseals) < MaxEnded
    /\ clog' = [clog EXCEPT ![h] =
                   end_task(@, a.success, a.error, a.tokens_used,
                            a.response_length, cnow)]
    /\ cseals' = [cseals EXCEPT ![h] = @ + 1]
    /\ cnow' = cnow + 1
    /\ csummary' = None
    /\ UNCHANGED <<runVars, truncVars, selVars, concVars, calcVars, teamVars, saveVars, jobVars, cacheVars, costVars, ccalls>>

\* MetricsCollector.get_summary(); the session started with the collector
CollSummary ==
    /\ csummary = None
    /\ csummary' = Some(get_summary(clog, 0, cnow))
    /\ UNCHANGED <<runVars, truncVars, selVars, concVars, calcVars, teamVars, saveVars, jobVars, cacheVars, costVars,
                   clog, cseals, ccalls, cnow>>

CollNext ==
    \/ \E agent_name \in AgentNames : CollStart(agent_name, CollTask)
    \/ \E h \in 1..MaxStarted, a \in EndArgs : CollEnd(h, a)
    \/ CollSummary

CollSpec == CollInit /\ [][CollNext]_vars

\* the part of a log entry start_task wrote and nothing rewrites
Started(m) == <<m.agent_name, m.task, m.start_time>>

\* C16: under interleaved start_task and end_task calls the log holds one
\* entry per start_task call in call order, keeps its earlier entries in
\* place, and an end_task call changes the entry of its own handle only.
C16_NoLostUpdate ==
    [][/\ Len(clog') = Len(ccalls')
       /\ \A i \in 1..Len(clog') :
            <<clog'[i].agent_name, clog'[i].task>> = ccalls'[i]
       /\ Len(clog') >= Len(clog)
       /\ \A i \in 1..Len(clog) :
            /\ Started(clog'[i]) = Started(clog[i])
            /\ (cseals'[i] = cseals[i]) => clog'[i] = clog[i]
            /\ (cseals'[i] # cseals[i]) => clog'[i].end_time = Some(cnow)
      ]_vars

\* two handles of different agents were started and then ended in the
\* opposite order
C16_Witness ==
    /\ Len(clog) = 2
    /\ cseals = <<1, 1>>
    /\ clog[1].agent_name # clog[2].agent_name
    /\ clog[2].end_time[1] < clog[1].end_time[1]
    /\ clog[1].success /\ ~clog[2].success

\* C17: a metric end_task was applied to keeps its end_time, success, error,
\* tokens_used, response_length and metadata in every later step, and no
\* handle is ended a second time.
C17_SealedIsImmutable ==
    [][\A i \in 1..Len(clog) :
         cseals[i] >= 1 => (clog'[i] = clog[i] /\ cseals'[i] = cseals[i])
      ]_vars

\* C18: get_summary counts every started metric, counts as successful those
\* with success true and as failed all others (ended or not), reports their
\* ratio (0 for an empty log) and the sum of tokens_used.
C18_SummaryTotals ==
    csummary # None =>
        LET s == csummary[1]
            all == 1..Len(ccalls)
            good == {i \in all : clog[i].success}
            open == {i \in all : cseals[i] = 0}
        IN  /\ s.total_tasks = Cardinality(all)
            /\ s.successful_tasks = Cardinality(good)
            /\ s.failed_tasks = s.total_tasks - s.successful_tasks
            /\ s.failed_tasks >= Cardinality(open)
            /\ s.failed_tasks = Cardinality(all \ good)
            /\ all = {} => s.success_rate = Zero
            /\ all # {} =>
                 /\ s.success_rate[1] * s.total_tasks
                       = s.successful_tasks * s.success_rate[2]
                 /\ s.success_rate[2] > 0
            /\ \E split \in [all -> {0, 30, 50}] :
                 /\ \A i \in all : split[i] = clog[i].tokens_used
                 /\ s.total_tokens
                       = 30 * Cardinality({i \in all : split[i] = 30})
                         + 50 * Cardinality({i \in all : split[i] = 50})

\* a summary taken while one metric is ended with success and another is
\* started and not ended
C18_Witness ==
    /\ csummary # None
    /\ Len(clog) = 2
    /\ \E i, j \in 1..2 : cseals[i] >= 1 /\ clog[i].success /\ cseals[j] = 0
    /\ csummary[1].failed_tasks = 1
    /\ csummary[1].success_rate = <<1, 2>>
    /\ csummary[1].total_tokens > 0

RECURSIVE SumOver(_, _, _)
SumOver(stats, names, key) ==
    IF names = {} THEN 0
    ELSE LET a == CHOOSE x \in names : TRUE
         IN  stats[a][key] + SumOver(stats, names \ {a}, key)

\* C19: agent_statistics has one entry per agent_name of the log, holding
\* the count, success count and token sum of that agent's metrics; summed
\* over the agents they give the global totals.
C19_AgentStatistics ==
    csummary # None =>
        LET s == csummary[1]
            stats == s.agent_statistics
            Of(a) == {i \in 1..Len(clog) : clog[i].agent_name = a}
            TokensOf(a) ==
                Sum([k \in 1..Len(clog) |->
                        IF clog[k].agent_name = a THEN clog[k].tokens_used ELSE 0])
        IN  /\ DOMAIN stats = {clog[i].agent_name : i \in 1..Len(clog)}
            /\ \A a \in DOMAIN stats :
                 /\ stats[a].total_tasks = Cardinality(Of(a))
                 /\ stats[a].successful_tasks
                       = Cardinality({i \in Of(a) : clog[i].success})
                 /\ stats[a].total_tokens = TokensOf(a)
            /\ SumOver(stats, DOMAIN stats, "total_tasks") = s.total_tasks
            /\ SumOver(stats, DOMAIN stats, "successful_tasks") = s.successful_tasks
            /\ SumOver(stats, DOMAIN stats, "total_tokens") = s.total_tokens

\* a summary over metrics of two agents with different token counts
C19_Witness ==
    /\ csummary # None
    /\ DOMAIN csummary[1].agent_statistics = AgentNames
    /\ csummary[1].agent_statistics["Agent1"].total_tokens = 50
    /\ csummary[1].agent_statistics["Agent2"].total_tokens = 30
    /\ csummary[1].agent_statistics["Agent1"].successful_tasks = 1

(* -------------------------- tools/calculator.py ------------------------- *)
\* nodes of a generated expression
MaxNodes == 3

\* an ast node: tag is the operator of a BinOp or UnaryOp, the id of a Name,
\* the id of the Name a Call calls ("" when it calls anything else); n is the
\* value of a numeric Constant; keywords are the values of a Call's keywords
Node(type, tag, n, kids, keywords) ==
    [type |-> type, tag |-> tag, n |-> n, kids |-> kids, keywords |-> keywords]
Num(n) == Node("Num", "", n, <<>>, <<>>)

SAFE_OPERATORS == {"Add", "Sub", "Mult", "Div", "FloorDiv", "Mod", "Pow",
                   "USub", "UAdd"}
Constants == {"pi", "e"}
MathFunctions == {"sqrt", "sin", "cos", "tan", "log", "log10", "exp"}
SAFE_FUNCTIONS ==
    {"abs", "round", "min", "max", "sum"} \cup MathFunctions \cup Constants

\* a Python object: a number (k = "num", the fraction q in lowest terms), a
\* float the model does not follow (k = "float"), a complex number, a
\* builtin function, or an exception on its way up (k = "raise"); called is
\* the set of functions that were called to get it
Value(k, q, name, called) == [k |-> k, q |-> q, name |-> name, called |-> called]
Frac(n, d) ==
    LET s == IF d < 0 THEN -1 ELSE 1
        g == GCD(IF n < 0 THEN -n ELSE n, s * d)
    IN  <<(s * n) \div g, (s * d) \div g>>
Number(q) == Value("num", q, "", {})
Inexact == Value("float", Zero, "", {})
Raising(type) == Value("raise", Zero, type, {})

RECURSIVE Power(_, _)
Power(b, x) == IF x = 0 THEN 1 ELSE b * Power(b, x - 1)

\* operator.add, sub, mul, truediv, floordiv, mod, pow; a float the model
\* does not follow is nonzero (pi, e, and function values other than the
\* exact ones CallFunction lists)
Arith(op, a, b) ==
    LET Quot(x, y) == Frac(x[1] * y[2], x[2] * y[1])
        Floor(x) == <<x[1] \div x[2], 1>>
        Prod(x, y) == Frac(x[1] * y[1], x[2] * y[2])
        Diff(x, y) == Frac(x[1] * y[2] - y[1] * x[2], x[2] * y[2])
        numeric == {"num", "float"}
    IN  IF a.k \notin numeric \/ b.k \notin numeric
        THEN IF {a.k, b.k} \subseteq numeric \cup {"complex"}
             THEN (IF op \in {"FloorDiv", "Mod"} THEN Raising("TypeError")
                   ELSE Value("complex", Zero, "", {}))
             ELSE Raising("TypeError")
        ELSE IF op \in {"Div", "FloorDiv", "Mod"} /\ b.k = "num" /\ b.q[1] = 0
        THEN Raising("ZeroDivisionError")
        ELSE IF op = "Pow" /\ a.k = "num" /\ a.q[1] = 0
                /\ b.k = "num" /\ b.q[1] < 0
        THEN Raising("ZeroDivisionError")
        ELSE IF "float" \in {a.k, b.k} THEN Inexact
        ELSE CASE op = "Add" -> Number(Frac(a.q[1] * b.q[2] + b.q[1] * a.q[2],
                                            a.q[2] * b.q[2]))
               [] op = "Sub" -> Number(Diff(a.q, b.q))
               [] op = "Mult" -> Number(Prod(a.q, b.q))
               [] op = "Div" -> Number(Quot(a.q, b.q))
               [] op = "FloorDiv" -> Number(Floor(Quot(a.q, b.q)))
               [] op = "Mod" ->
                    Number(Diff(a.q, Prod(b.q, Floor(Quot(a.q, b.q)))))
               [] op = "Pow" ->
                    IF b.q[2] # 1
                    THEN (IF a.q[1] < 0 THEN Value("complex", Zero, "", {})
                          ELSE Inexact)
                    ELSE IF b.q[1] >= 0
                    THEN Number(Frac(Power(a.q[1], b.q[1]), Power(a.q[2], b.q[1])))
                    ELSE Number(Frac(Power(a.q[2], -b.q[1]), Power(a.q[1], -b.q[1])))

\* func(*args) for the entries of SAFE_FUNCTIONS
CallFunction(name, args) ==
    LET nums == \A i \in 1..Len(args) : args[i].k \in {"num", "float"}
        exact == \A i \in 1..Len(args) : args[i].k = "num"
        Less(x, y) == x[1] * y[2] < y[1] * x[2]
        Least(lo) == CHOOSE i \in 1..Len(args) :
                        \A j \in 1..Len(args) :
                           /\ ~(IF lo THEN Less(args[j].q, args[i].q)
                                ELSE Less(args[i].q, args[j].q))
                           /\ (j < i => (IF lo THEN Less(args[i].q, args[j].q)
                                         ELSE Less(args[j].q, args[i].q)))
        Nearest(x) ==
            LET f == x[1] \div x[2]
                r == x[1] - f * x[2]
            IN  IF 2 * r < x[2] THEN f
                ELSE IF 2 * r > x[2] THEN f + 1
                ELSE IF f % 2 = 0 THEN f ELSE f + 1
        Scale(x) == IF x >= 0 THEN <<Power(10, x), 1>> ELSE <<1, Power(10, -x)>>
    IN  IF name \in Constants THEN Raising("TypeError")
        ELSE IF ~nums THEN Raising("TypeError")
        ELSE IF name = "abs" THEN
            IF Len(args) # 1 THEN Raising("TypeError")
            ELSE IF ~exact THEN Inexact
            ELSE Number(<<IF args[1].q[1] < 0 THEN -args[1].q[1] ELSE args[1].q[1],
                          args[1].q[2]>>)
        ELSE IF name = "round" THEN
            IF Len(args) \notin {1, 2} THEN Raising("TypeError")
            ELSE IF Len(args) = 2 /\ (args[2].k # "num" \/ args[2].q[2] # 1)
            THEN Raising("TypeError")
            ELSE IF ~exact THEN Inexact
            ELSE IF Len(args) = 1 THEN Number(<<Nearest(args[1].q), 1>>)
            ELSE LET s == Scale(args[2].q[1])
                 IN  Number(Frac(Nearest(Frac(args[1].q[1] * s[1],
                                              args[1].q[2] * s[2])) * s[2],
                                 s[1]))
        ELSE IF name \in {"min", "max"} THEN
            IF Len(args) < 2 THEN Raising("TypeError")
            ELSE IF ~exact THEN Inexact
            ELSE Number(args[Least(name = "min")].q)
        ELSE IF name = "sum" THEN Raising("TypeError")
        ELSE IF Len(args) # 1 /\ ~(name = "log" /\ Len(args) = 2)
        THEN Raising("TypeError")
        ELSE IF ~exact THEN Inexact
        ELSE IF name = "sqrt" /\ args[1].q[1] < 0 THEN Raising("ValueError")
        ELSE IF name \in {"log", "log10"}
                /\ \E i \in 1..Len(args) : args[i].q[1] <= 0
        THEN Raising("ValueError")
        ELSE IF name = "log" /\ Len(args) = 2 /\ args[2].q = <<1, 1>>
        THEN Raising("ZeroDivisionError")
        ELSE IF name \in {"sqrt", "sin", "tan"} /\ args[1].q[1] = 0
        THEN Number(Zero)
        ELSE IF name \in {"log", "log10"} /\ args[1].q = <<1, 1>>
        THEN Number(Zero)
        ELSE IF name \in {"cos", "exp"} /\ args[1].q[1] = 0
        THEN Number(<<1, 1>>)
        ELSE Inexact

\* _safe_eval(node); the keywords of a Call are not looked at
RECURSIVE _safe_eval(_)
_safe_eval(node) ==
    LET vals == [i \in 1..Len(node.kids) |-> _safe_eval(node.kids[i])]
        raised == {i \in 1..Len(vals) : vals[i].k = "raise"}
        first == CHOOSE i \in raised : \A j \in raised : i <= j
        reached == IF raised = {} THEN 1..Len(vals) ELSE 1..first
        calls == UNION {vals[i].called : i \in reached}
        With(v, more) == [v EXCEPT !.called = calls \cup more]
    IN  IF node.type = "Num" THEN Number(<<node.n, 1>>)
        ELSE IF node.type \in {"BinOp", "UnaryOp"} THEN
            IF node.tag \notin SAFE_OPERATORS THEN Raising("ValueError")
            ELSE IF raised # {} THEN With(vals[first], {})
            ELSE IF node.type = "BinOp"
            THEN With(Arith(node.tag, vals[1], vals[2]), {})
            ELSE IF node.tag = "USub"
            THEN With(Arith("Sub", Number(Zero), vals[1]), {})
            ELSE With(Arith("Add", Number(Zero), vals[1]), {})
        ELSE IF node.type = "Call" THEN
            IF node.tag \notin SAFE_FUNCTIONS THEN Raising("ValueError")
            ELSE IF raised # {} THEN With(vals[first], {})
            ELSE With(CallFunction(node.tag, vals),
                      IF node.tag \in Constants THEN {} ELSE {node.tag})
        ELSE IF node.type = "Name" THEN
            IF node.tag \in Constants THEN Inexact
            ELSE IF node.tag \in SAFE_FUNCTIONS
            THEN Value("function", Zero, node.tag, {})
            ELSE Raising("ValueError")
        ELSE Raising("ValueError")

Envelope(status, message, result, called) ==
    [status |-> status, message |-> message, result |-> result, called |-> called]

\* calculator(expression): ast.parse in eval mode, _safe_eval, json.dumps,
\* and the two except branches
calculator(expression) ==
    IF expression.kind # "expression"
    THEN Envelope("error", "Evaluation failed", Zero, {})
    ELSE LET result == _safe_eval(expression.body)
         IN  IF result.k = "raise" /\ result.name = "ZeroDivisionError"
             THEN Envelope("error", "Division by zero", Zero, result.called)
             ELSE IF result.k = "raise" \/ result.k \notin {"num", "float"}
             THEN Envelope("error", "Evaluation failed", Zero, result.called)
             ELSE Envelope("success", "", result.q, result.called)

\* what the callers' expressions are made of
Leaves ==
    {Num(0), Num(2), Node("Name", "pi", 0, <<>>, <<>>),
     Node("Constant", "", 0, <<>>, <<>>)}
BinOps == {"Add", "Div", "BitXor"}
UnaryOps == {"USub"}
Callees == {"abs", "__import__", ""}

\* the expressions of exactly n nodes
RECURSIVE Trees(_)
Trees(n) ==
    IF n = 1 THEN Leaves
    ELSE LET Pairs == UNION {Trees(i) \X Trees(n - 1 - i) : i \in 1..(n - 2)}
         IN  {Node("UnaryOp", op, 0, <<x>>, <<>>) :
                 op \in UnaryOps, x \in Trees(n - 1)}
             \cup {Node("Attribute", "system", 0, <<x>>, <<>>) : x \in Trees(n - 1)}
             \cup {Node("Call", f, 0, <<x>>, <<>>) : f \in Callees, x \in Trees(n - 1)}
             \cup {Node("Call", f, 0, <<>>, <<x>>) : f \in Callees, x \in Trees(n - 1)}
             \cup {Node("BinOp", op, 0, <<p[1], p[2]>>, <<>>) :
                     op \in BinOps, p \in Pairs}
             \cup {Node("Call", f, 0, <<p[1], p[2]>>, <<>>) :
                     f \in Callees, p \in Pairs}
             \cup {Node("Call", f, 0, <<p[1]>>, <<p[2]>>) :
                     f \in Callees, p \in Pairs}

\* "25 * 4 + 10"
Expr_25x4p10 ==
    Node("BinOp", "Add", 0,
         <<Node("BinOp", "Mult", 0, <<Num(25), Num(4)>>, <<>>), Num(10)>>, <<>>)

\* an expression parses to its tree; an assignment is no expression
Expressions ==
    {[kind |-> "expression", body |-> t] :
        t \in UNION {Trees(n) : n \in 1..MaxNodes} \cup {Expr_25x4p10}}
    \cup {[kind |-> "statement", body |-> t] : t \in Leaves}

CalcInit ==
    /\ TeamIdle /\ SaveIdle /\ JobIdle /\ CacheIdle /\ CostIdle /\ RunIdle /\ TruncIdle /\ SelIdle /\ CollIdle /\ ConcIdle
    /\ kpc = "call"
    /\ kexpr \in Expressions
    /\ kout = <<>>

CalcCall ==
    /\ kpc = "call"
    /\ kout' = calculator(kexpr)
    /\ kpc' = "done"
    /\ UNCHANGED <<runVars, truncVars, selVars, collVars, concVars, costVars, cacheVars, jobVars, saveVars, teamVars, kexpr>>

CalcNext == CalcCall

CalcSpec == CalcInit /\ [][CalcNext]_vars

\* the names the grammar allows
GrammarNames == {"abs", "round", "min", "max", "sum", "sqrt", "sin", "cos",
                 "tan", "log", "log10", "exp", "pi", "e"}
GrammarOperators == {"Add", "Sub", "Mult", "Div", "FloorDiv", "Mod", "Pow",
                     "USub", "UAdd"}
\* the expression holds a construct that is outside the grammar
RECURSIVE HasOutside(_)
HasOutside(node) ==
    \/ node.type \notin {"Num", "BinOp", "UnaryOp", "Call", "Name"}
    \/ node.type \in {"Call", "Name"} /\ node.tag \notin GrammarNames
    \/ node.type \in {"BinOp", "UnaryOp"} /\ node.tag \notin GrammarOperators
    \/ \E i \in 1..Len(node.kids) : HasOutside(node.kids[i])
    \/ \E i \in 1..Len(node.keywords) : HasOutside(node.keywords[i])

\* sums of numbers, and their values
RECURSIVE IsSum(_)
IsSum(node) ==
    \/ node.type = "Num"
    \/ /\ node.type = "BinOp" /\ node.tag = "Add"
       /\ IsSum(node.kids[1]) /\ IsSum(node.kids[2])
RECURSIVE SumValue(_)
SumValue(node) ==
    IF node.type = "Num" THEN node.n
    ELSE SumValue(node.kids[1]) + SumValue(node.kids[2])

\* C20: calculator returns an envelope of status success or error for every
\* expression: success with the value for an expression of the grammar
\* (110 for "25 * 4 + 10"), an error for a division by zero, and an error,
\* with nothing outside the allow-list called, for an expression holding a
\* construct outside the grammar.
C20_CalculatorEnvelope ==
    kpc = "done" =>
        /\ kout.status \in {"success", "error"}
        /\ kout.called \subseteq GrammarNames
        /\ (kexpr.kind = "statement" \/ HasOutside(kexpr.body))
              => kout.status = "error"
        /\ (kexpr.kind = "expression" /\ kexpr.body = Expr_25x4p10)
              => (kout.status = "success" /\ kout.result = <<110, 1>>)
        /\ (kexpr.kind = "expression" /\ IsSum(kexpr.body))
              => (kout.status = "success"
                  /\ kout.result = <<SumValue(kexpr.body), 1>>)
        /\ (/\ kexpr.kind = "expression"
            /\ kexpr.body.type = "BinOp" /\ kexpr.body.tag = "Div"
            /\ IsSum(kexpr.body.kids[1]) /\ IsSum(kexpr.body.kids[2])
            /\ SumValue(kexpr.body.kids[2]) = 0)
              => (kout.status = "error" /\ kout.message = "Division by zero")

(* ----------------------- TokenCounter.estimate_cost --------------------- *)
\* MODEL_PRICING in the order of the dict: key, then the input and output
\* price per 1K tokens in millionths of a dollar
MODEL_PRICING ==
    <<<<<<"g", "p", "t", "-", "4">>, 30000, 60000>>,
      <<<<"g", "p", "t", "-", "4", "-", "t", "u", "r", "b", "o">>, 10000, 30000>>,
      <<<<"g", "p", "t", "-", "4", "o">>, 5000, 15000>>,
      <<<<"g", "p", "t", "-", "4", "o", "-", "m", "i", "n", "i">>, 150, 600>>,
      <<<<"g", "p", "t", "-", "3", ".", "5", "-", "t", "u", "r", "b", "o">>, 500, 1500>>,
      <<<<"l", "l", "a", "m", "a", "3", ".", "2">>, 0, 0>>,
      <<<<"l", "l", "a", "m", "a", "3", ".", "2", ":", "1", "b">>, 0, 0>>,
      <<<<"l", "l", "a", "m", "a", "3", ".", "2", ":", "3", "b">>, 0, 0>>,
      <<<<"m", "i", "s", "t", "r", "a", "l">>, 0, 0>>,
      <<<<"c", "o", "d", "e", "l", "l", "a", "m", "a">>, 0, 0>>>>

PricingIndexLast(model_name) ==
    LET hits == {i \in 1..Len(MODEL_PRICING) :
                    IsSubstring(MODEL_PRICING[i][1], LowerText(model_name))}
    IN  IF hits = {} THEN 0 ELSE CHOOSE i \in hits : \A j \in hits : j <= i
PricingIndexLongest(model_name) ==
    LET hits == {i \in 1..Len(MODEL_PRICING) :
                    IsSubstring(MODEL_PRICING[i][1], LowerText(model_name))}
    IN  IF hits = {} THEN 0
        ELSE CHOOSE i \in hits :
                \A j \in hits : Len(MODEL_PRICING[j][1]) <= Len(MODEL_PRICING[i][1])
\* the loop over MODEL_PRICING.items() with its break; 0 for `pricing is None`
PricingIndex(model_name) ==
    LET hits == {i \in 1..Len(MODEL_PRICING) :
                    IsSubstring(MODEL_PRICING[i][1], LowerText(model_name))}
    IN  IF hits = {} THEN 0 ELSE CHOOSE i \in hits : \A j \in hits : i <= j

\* estimate_cost(input_tokens, output_tokens, model) of a counter whose
\* model is self_model; the cost in millionths of a dollar (round(_, 6))
estimate_cost(input_tokens, output_tokens, model, self_model) ==
    LET model_name == IF model = <<>> THEN self_model ELSE model
        key == PricingIndex(model_name)
        thousandths == input_tokens * MODEL_PRICING[key][2]
                          + output_tokens * MODEL_PRICING[key][3]
        f == thousandths \div 1000
        r == thousandths % 1000
    IN  IF key = 0 THEN [model_name |-> model_name, key |-> 0, cost |-> 0]
        ELSE [model_name |-> model_name, key |-> key,
              cost |-> IF 2 * r < 1000 THEN f
                       ELSE IF 2 * r > 1000 THEN f + 1
                       ELSE IF f % 2 = 0 THEN f ELSE f + 1]

\* model names callers pass; the last is the empty string
ModelNames ==
    {<<"g", "p", "t", "-", "4">>,
     <<"g", "p", "t", "-", "4", "-", "t", "u", "r", "b", "o">>,
     <<"G", "P", "T", "-", "4", "o">>,
     <<"g", "p", "t", "-", "4", "o", "-", "m", "i", "n", "i">>,
     <<"g", "p", "t", "-", "3", ".", "5", "-", "t", "u", "r", "b", "o">>,
     <<"l", "l", "a", "m", "a", "3", ".", "2">>,
     <<"l", "l", "a", "m", "a", "3", ".", "2", ":", "1", "b">>,
     <<"l", "l", "a", "m", "a", "3", ".", "2", ":", "3", "b">>,
     <<"m", "i", "s", "t", "r", "a", "l">>,
     <<"c", "l", "a", "u", "d", "e", "-", "3">>,
     <<"f", "t", ":", "g", "p", "t", "-", "4", "o", "-", "m", "i", "n", "i">>,
     <<>>}
TokenCounts == {0, 1, 500, 1000}

CostInit ==
    /\ RunIdle /\ TruncIdle /\ SelIdle /\ CollIdle /\ ConcIdle /\ CalcIdle /\ TeamIdle /\ SaveIdle /\ JobIdle /\ CacheIdle
    /\ epc = "call"
    /\ earg \in [input_tokens : TokenCounts, output_tokens : TokenCounts,
                 model : ModelNames,
                 self_model : {MODEL_PRICING[1][1], MODEL_PRICING[6][1]}]
    /\ ecost = <<>>

CostCall ==
    /\ epc = "call"
    /\ ecost' = estimate_cost(earg.input_tokens, earg.output_tokens,
                              earg.model, earg.self_model)
    /\ epc' = "done"
    /\ UNCHANGED <<runVars, truncVars, selVars, collVars, concVars, calcVars, teamVars, saveVars, jobVars, cacheVars, earg>>

CostSpec == CostInit /\ [][CostCall]_vars

\* position of a key in the text, for the claims below
KeyIn(i, name) == IsSubstring(MODEL_PRICING[i][1], LowerText(name))

\* C21: estimate_cost uses the price pair of the first key of the table, in
\* table order, that is a substring of the lower-cased model name; a name
\* matching no key costs 0; no tokens cost 0 for every model.
C21_FirstMatchingKeyPrices ==
    epc = "done" =>
        /\ ecost.key \in 0..Len(MODEL_PRICING)
        /\ ecost.key # 0 =>
              /\ KeyIn(ecost.key, ecost.model_name)
              /\ \A j \in 1..(ecost.key - 1) : ~KeyIn(j, ecost.model_name)
              /\ \E c \in {ecost.cost} :
                    /\ 2000 * c >= 2 * (earg.input_tokens * MODEL_PRICING[ecost.key][2]
                                        + earg.output_tokens * MODEL_PRICING[ecost.key][3])
                                    - 1000
                    /\ 2000 * c <= 2 * (earg.input_tokens * MODEL_PRICING[ecost.key][2]
                                        + earg.output_tokens * MODEL_PRICING[ecost.key][3])
                                    + 1000
        /\ (\A j \in 1..Len(MODEL_PRICING) : ~KeyIn(j, ecost.model_name))
              => (ecost.key = 0 /\ ecost.cost = 0)
        /\ (earg.input_tokens = 0 /\ earg.output_tokens = 0) => ecost.cost = 0
        /\ earg.model # <<>> => ecost.model_name = earg.model

\* a model name in upper case that two keys match, priced by the earlier one
C21_Witness ==
    /\ epc = "done"
    /\ earg.model = <<"G", "P", "T", "-", "4", "o">>
    /\ earg.input_tokens = 1000 /\ earg.output_tokens = 500
    /\ ecost.key = 1
    /\ ecost.cost = 60000

\* C30: every model name holding "gpt-4" is priced with the gpt-4 pair, and
\* the entries gpt-4-turbo, gpt-4o, gpt-4o-mini, llama3.2:1b and llama3.2:3b
\* are never the entry selected.
C30_ShadowedEntries ==
    epc = "done" =>
        /\ IsSubstring(<<"g", "p", "t", "-", "4">>, LowerText(ecost.model_name))
              => /\ ecost.key = 1
                 /\ 1000 * ecost.cost = 30000 * earg.input_tokens
                                          + 60000 * earg.output_tokens
        /\ \A i \in 1..Len(MODEL_PRICING) :
              MODEL_PRICING[i][1] \in {<<"g", "p", "t", "-", "4", "-", "t", "u", "r", "b", "o">>, <<"g", "p", "t", "-", "4", "o">>,
                                        <<"g", "p", "t", "-", "4", "o", "-", "m", "i", "n", "i">>, <<"l", "l", "a", "m", "a", "3", ".", "2", ":", "1", "b">>,
                                        <<"l", "l", "a", "m", "a", "3", ".", "2", ":", "3", "b">>}
                 => ecost.key # i

\* gpt-4o-mini given 1000 input tokens costs the gpt-4 input price
C30_Witness ==
    /\ epc = "done"
    /\ earg.model = <<"g", "p", "t", "-", "4", "o", "-", "m", "i", "n", "i">>
    /\ earg.input_tokens = 1000 /\ earg.output_tokens = 0
    /\ ecost.cost = 30000

(* --------------------------- database/cache.py -------------------------- *)
\* calls made on the cache manager
MaxOps == 4

CacheTasks == {"Task 1", "Task 2"}
\* result dicts of one entry: the type and spelling of its key and its value,
\* "object" being a value json cannot encode
Results ==
    {[kt |-> "str", k |-> "data", v |-> "test1"],
     [kt |-> "str", k |-> "data", v |-> "test2"],
     [kt |-> "int", k |-> "1", v |-> "test1"],
     [kt |-> "str", k |-> "data", v |-> "object"]}

\* json.dumps: a key that is a number is written as a string
json_dumps(result) ==
    IF result.v = "object" THEN Exc("TypeError", "Object is not JSON serializable")
    ELSE [k |-> result.k, v |-> result.v]
\* json.loads: every key of an object is a str
json_loads(text) == [kt |-> "str", k |-> text.k, v |-> text.v]

\* _generate_key(task); sha256 is taken to have no collisions
_generate_key(t) == <<"research:task:", t>>

setnx(store, key, text) ==
    IF key \in DOMAIN store THEN store
    ELSE [k \in DOMAIN store \cup {key} |-> IF k = key THEN text ELSE store[k]]
\* redis setex, get and delete on the keys of the store
setex(store, key, text) ==
    [k \in DOMAIN store \cup {key} |-> IF k = key THEN text ELSE store[k]]
Without(store, keys) == [k \in DOMAIN store \ keys |-> store[k]]

\* a call is made and returns a value, or raises (raised is the exception)
CacheCalled(op, t, result, returned, raised) ==
    /\ Len(cops) < MaxOps
    /\ cops' = Append(cops, [op |-> op, task |-> t, result |-> result,
                             raised |-> raised])
    /\ cret' = returned
    /\ UNCHANGED <<runVars, truncVars, selVars, collVars, concVars, calcVars, teamVars, saveVars, jobVars,
                   costVars>>

CacheInit ==
    /\ RunIdle /\ TruncIdle /\ SelIdle /\ CollIdle /\ ConcIdle /\ CalcIdle /\ TeamIdle /\ SaveIdle /\ JobIdle
    /\ CostIdle
    /\ redis = <<>> /\ cops = <<>> /\ cret = <<>>

\* CacheManager.get(task)
CacheGet(t) ==
    /\ CacheCalled("get", t, None,
                   IF _generate_key(t) \in DOMAIN redis
                   THEN Some(json_loads(redis[_generate_key(t)])) ELSE None,
                   None)
    /\ UNCHANGED redis

\* CacheManager.set(task, result); a TypeError of json.dumps is not among
\* the exceptions the method catches
CacheSet(t, result) ==
    LET text == json_dumps(result)
    IN  IF result.v = "object"
        THEN CacheCalled("set", t, Some(result), None, Some(text))
             /\ UNCHANGED redis
        ELSE /\ redis' = setex(redis, _generate_key(t), text)
             /\ CacheCalled("set", t, Some(result), Some("True"), None)

\* CacheManager.delete(task)
CacheDelete(t) ==
    /\ redis' = Without(redis, {_generate_key(t)})
    /\ CacheCalled("delete", t, None, Some("True"), None)

\* CacheManager.clear_all()
CacheClearAll ==
    /\ redis' = Without(redis, {k \in DOMAIN redis : k[1] = "research:task:"})
    /\ CacheCalled("clear_all", "", None, Some("True"), None)

CacheNext ==
    \/ \E t \in CacheTasks : CacheGet(t) \/ CacheDelete(t)
    \/ \E t \in CacheTasks, result \in Results : CacheSet(t, result)
    \/ CacheClearAll

CacheSpec == CacheInit /\ [][CacheNext]_vars

\* the calls since the last delete(t) or clear_all, and among them the last
\* set(t, v) that returned
RECURSIVE LastSet(_, _)
LastSet(ops, t) ==
    IF ops = <<>> THEN None
    ELSE LET o == ops[Len(ops)]
         IN  IF o.op = "clear_all" \/ (o.op = "delete" /\ o.task = t) THEN None
             ELSE IF o.op = "set" /\ o.task = t /\ o.raised = None
             THEN o.result
             ELSE LastSet(SubSeq(ops, 1, Len(ops) - 1), t)

LastCallIsGet == cops # <<>> /\ cops[Len(cops)].op = "get"
Before == SubSeq(cops, 1, Len(cops) - 1)

\* C22 as stated: get(t) returns the value v of the most recent set(t, v)
\* that no delete(t) or clear_all followed, and None otherwise.
C22_GetReturnsLastSet ==
    LastCallIsGet => cret = LastSet(Before, cops[Len(cops)].task)

\* C22: get(t) returns what json reads back from the most recent set(t, v)
\* that returned and that no delete(t) or clear_all followed (v with every
\* key a string), and None otherwise; calls on other task texts do not
\* change it.
C22_GetReturnsJsonOfLastSet ==
    LastCallIsGet =>
        LET last == LastSet(Before, cops[Len(cops)].task)
        IN  cret = IF last = None THEN None
                   ELSE Some([last[1] EXCEPT !.kt = "str"])

\* a second set on a task text, then a set on another text, then get
C22_Witness ==
    /\ Len(cops) = 4
    /\ cops[1].op = "set" /\ cops[2].op = "set" /\ cops[3].op = "set"
    /\ cops[1].task = cops[2].task /\ cops[3].task # cops[1].task
    /\ cops[1].result # cops[2].result
    /\ cops[4].op = "get" /\ cops[4].task = cops[1].task
    /\ cret = cops[2].result

(* ------------- app.py research_v1 and process_research_task ------------- *)
\* POST requests made
MaxPosts == 2
\* times the broker hands the job of one task to a worker
MaxDeliveries == 2

MaxTaskLength == 5000

\* request bodies: none (or {}), an object without "task", "task": null, or
\* a task text of `core` characters between `pad` blanks
Bodies ==
    {[kind |-> k, pad |-> 0, core |-> 0] : k \in {"none", "no task", "null"}}
        \cup {[kind |-> "text", pad |-> p, core |-> c] :
                 p \in {0, 2},
                 c \in {0, 1, MaxTaskLength - 1, MaxTaskLength, MaxTaskLength + 1}}

\* data.get("task", "").strip(): the text it leaves, by its length
Stripped(body) == IF body.kind = "text" THEN body.core ELSE 0

RejectsUnstripped(body) ==
    \/ body.kind \in {"none", "no task"}
    \/ body.pad + body.core = 0
    \/ body.pad + body.core > MaxTaskLength
\* the three 400 returns of research_v1
Rejects(body) ==
    \/ body.kind \in {"none", "no task"}
    \/ Stripped(body) = 0
    \/ Stripped(body) > MaxTaskLength

JobInit ==
    /\ RunIdle /\ TruncIdle /\ SelIdle /\ CollIdle /\ ConcIdle /\ CalcIdle /\ TeamIdle /\ SaveIdle
    /\ CostIdle /\ CacheIdle
    /\ JobIdle

\* research_v1: nothing fills the cache, so the lookup misses
Post(body) ==
    /\ posts < MaxPosts
    /\ posts' = posts + 1
    /\ posted' = Some(body)
    /\ IF body.kind = "null"
       THEN resp' = 500 /\ UNCHANGED <<rtasks, queue, jpc, jdeliv>>
       ELSE IF Rejects(body)
       THEN resp' = 400 /\ UNCHANGED <<rtasks, queue, jpc, jdeliv>>
       ELSE /\ rtasks' = Append(rtasks, [id |-> Len(rtasks) + 1,
                                         task |-> Stripped(body),
                                         status |-> "pending",
                                         completed_at |-> None,
                                         error |-> None])
            /\ queue' = queue \cup {Len(rtasks) + 1}
            /\ jpc' = Append(jpc, "idle")
            /\ jdeliv' = Append(jdeliv, 0)
            /\ resp' = 202
    /\ UNCHANGED <<runVars, truncVars, selVars, collVars, concVars, calcVars, teamVars, saveVars,
                   costVars, cacheVars>>

\* process_research_task up to the commit of "processing"
JobBegin(id) ==
    /\ id \in queue
    /\ jpc[id] = "idle"
    /\ queue' = queue \ {id}
    /\ jdeliv' = [jdeliv EXCEPT ![id] = @ + 1]
    /\ jpc' = [jpc EXCEPT ![id] = "running"]
    /\ rtasks' = [rtasks EXCEPT ![id].status = "processing"]
    /\ UNCHANGED <<runVars, truncVars, selVars, collVars, concVars, calcVars, teamVars, saveVars,
                   costVars, cacheVars, posts, posted, resp>>

\* ResearchTeam(config=config) raises the TypeError of BaseAgent.__init__
\* and the except branch records the failure
JobFail(id) ==
    /\ id \in 1..Len(rtasks)
    /\ jpc[id] = "running"
    /\ jpc' = [jpc EXCEPT ![id] = "idle"]
    /\ rtasks' = [rtasks EXCEPT
                    ![id].status = "failed",
                    ![id].error = Some("BaseAgent.__init__() got an unexpected keyword argument 'tools'"),
                    ![id].completed_at = Some(jdeliv[id])]
    /\ UNCHANGED <<runVars, truncVars, selVars, collVars, concVars, calcVars, teamVars, saveVars,
                   costVars, cacheVars, queue, jdeliv, posts, posted, resp>>

\* the broker delivers the job message of a task once more
Redeliver(id) ==
    /\ id \in 1..Len(rtasks)
    /\ id \notin queue
    /\ jdeliv[id] < MaxDeliveries
    /\ queue' = queue \cup {id}
    /\ UNCHANGED <<runVars, truncVars, selVars, collVars, concVars, calcVars, teamVars, saveVars,
                   costVars, cacheVars, rtasks, jpc, jdeliv, posts, posted, resp>>

JobNext ==
    \/ \E body \in Bodies : Post(body)
    \/ \E id \in 1..MaxPosts : JobBegin(id) \/ JobFail(id) \/ Redeliver(id)

JobSpec == JobInit /\ [][JobNext]_vars

C27_StatusOnlyMovesForward ==
    [][/\ \A id \in 1..Len(rtasks) :
            \/ rtasks'[id].status = rtasks[id].status
            \/ <<rtasks[id].status, rtasks'[id].status>>
                  \in {<<"pending", "processing">>, <<"processing", "completed">>,
                       <<"processing", "failed">>}
       /\ \A id \in 1..Len(rtasks') :
            /\ (rtasks'[id].completed_at # None)
                  <=> (rtasks'[id].status \in {"completed", "failed"})
            /\ (rtasks'[id].error # None) => (rtasks'[id].status = "failed")
      ]_vars

(* --------------- truncate_conversation_history: the budget ------------- *)
\* C29: whenever the output keeps at least one non-system message, the sum
\* over all kept messages, the preserved system message included, of content
\* tokens plus 4 is at most max_tokens; and the kept tail is maximal: if a
\* non-system message was dropped, the kept messages together with the
\* newest dropped message cost more than max_tokens.
C29_BudgetKeptAndMaximal ==
    tpc = "done" =>
        LET Kept(i) == \E j \in 1..Len(tout) : tout[j] = tin[i]
            dropped == {i \in 1..Len(tin) : ~Kept(i)}
            newest == CHOOSE i \in dropped : \A j \in dropped : j <= i
            cost == SumTokens(tout) + 4 * Len(tout)
        IN  /\ (\E j \in 1..Len(tout) : tout[j].role # "system") => cost <= tmax
            /\ (\E i \in dropped : tin[i].role # "system") =>
                   cost + count_tokens(tin[newest].content) + 4 > tmax

\* a system head is preserved, the newest message is kept, and the older
\* message between them is dropped although the budget is not used up
C29_Witness ==
    /\ tpc = "done"
    /\ tkeep
    /\ Len(tin) = 3
    /\ tin[1].role = "system"
    /\ tin[2].role # "system"
    /\ tin[3].role # "system"
    /\ tout = <<tin[1], tin[3]>>
    /\ SumTokens(tout) + 4 * Len(tout) < tmax

(* ------ tasks/research_tasks.py: stream_and_save_messages -------------- *)
MaxReturned == 3

\* AgentMessage(task_id=task_id, agent=..., content=..., order=idx)
AgentMessage(item, idx) ==
    [agent |-> item.source, content |-> item.content, order |-> idx]

\* variant: `idx += 1` outside the `if hasattr(...)` block
RECURSIVE save_enumerating(_, _, _, _)
save_enumerating(returned, i, idx, saved) ==
    IF i > Len(returned) THEN saved
    ELSE IF returned[i].hasSource /\ returned[i].hasContent
         THEN save_enumerating(returned, i + 1, idx + 1,
                               Append(saved, AgentMessage(returned[i], idx)))
         ELSE save_enumerating(returned, i + 1, idx + 1, saved)

\* `for message in messages:` with its counter idx; the rows added so far
RECURSIVE save_loop(_, _, _, _)
save_loop(returned, i, idx, saved) ==
    IF i > Len(returned) THEN saved
    ELSE IF returned[i].hasSource /\ returned[i].hasContent
         THEN save_loop(returned, i + 1, idx + 1,
                        Append(saved, AgentMessage(returned[i], idx)))
         ELSE save_loop(returned, i + 1, idx, saved)

\* the AgentMessage rows of a task after stream_and_save_messages: the loop
\* runs on the list `await team.research(...)` returned, and not at all
\* when research() raised
stream_and_save_messages(out) ==
    IF out.kind = "returned" THEN save_loop(out.value[1], 1, 0, <<>>) ELSE <<>>

\* items a returned list may hold: chat messages, the TaskResult, and items
\* with only one of the two attributes
ReturnedItems ==
    {Message("Researcher", Text(1, "")), Message("Writer", Text(1, "TERMINATE")),
     TaskResult,
     [hasSource |-> TRUE, hasContent |-> FALSE, source |-> "Critic",
      content |-> Text(0, "")],
     [hasSource |-> FALSE, hasContent |-> TRUE, source |-> "",
      content |-> Text(1, "")]}
ReturnedLists == UNION {[1..n -> ReturnedItems] : n \in 0..MaxReturned}

SaveInit ==
    /\ RunIdle /\ TruncIdle /\ SelIdle /\ CollIdle /\ ConcIdle /\ CalcIdle
    /\ CostIdle /\ CacheIdle /\ JobIdle /\ TeamIdle
    /\ vpc = "call"
    /\ vmsgs \in ReturnedLists
    /\ vsaved = <<>>

SaveCall ==
    /\ vpc = "call"
    /\ vsaved' = stream_and_save_messages(
                     [kind |-> "returned", value |-> <<vmsgs, ZeroStats>>])
    /\ vpc' = "done"
    /\ UNCHANGED <<runVars, truncVars, selVars, collVars, concVars, calcVars,
                   costVars, cacheVars, jobVars, teamVars, vmsgs>>

SaveNext == SaveCall

SaveSpec == SaveInit /\ [][SaveNext]_vars

\* C28: the persisted AgentMessage records carry the order values 0, 1, ...,
\* k-1 with no gap and no duplicate, in emission order, one record per
\* returned item that has both a source and a content; an item lacking
\* either is skipped and consumes no order value.
C28_OrderIsDense ==
    vpc = "done" =>
        LET with == {i \in 1..Len(vmsgs) : vmsgs[i].hasSource /\ vmsgs[i].hasContent}
            Before28(i) == Cardinality({j \in with : j < i})
        IN  /\ Len(vsaved) = Cardinality(with)
            /\ \A r \in 1..Len(vsaved) : vsaved[r].order = r - 1
            /\ \A i \in with :
                   vsaved[Before28(i) + 1] =
                       [agent |-> vmsgs[i].source, content |-> vmsgs[i].content,
                        order |-> Before28(i)]

\* an item without content between two chat messages: two rows, orders 0, 1
C28_Witness ==
    /\ vpc = "done"
    /\ Len(vmsgs) = 3
    /\ vmsgs[1].hasSource /\ vmsgs[1].hasContent
    /\ vmsgs[2].hasSource /\ ~vmsgs[2].hasContent
    /\ vmsgs[3].hasSource /\ vmsgs[3].hasContent
    /\ Len(vsaved) = 2
    /\ vsaved[2].order = 1
    /\ vsaved[2].agent = vmsgs[3].source

\* C24: when a run fails at turn k, the messages of turns 1..k-1 are
\* preserved: after the failure the persisted messages of the task are
\* exactly the k-1 messages the stream had emitted.
C24_FailedRunKeepsStreamed ==
    (pc = "failed" /\ stream = "aborted") =>
        LET streamed == SelectSeq(emitted, IsMessage)
            saved == stream_and_save_messages(outcome)
        IN  /\ Len(saved) = Len(streamed)
            /\ \A i \in 1..Len(saved) :
                   /\ saved[i].agent = streamed[i].source
                   /\ saved[i].content = streamed[i].content

(* ------------- teams/research_team.py: ResearchTeam.__init__ ----------- *)
\* the parameters of BaseAgent.__init__ besides self
BaseAgentParams ==
    {"name", "description", "system_message", "model_client",
     "metrics_collector", "metadata"}
\* the keywords of the super().__init__(...) call of the four agents
SuperInitKeywords ==
    {"name", "description", "system_message", "model_client",
     "metrics_collector", "tools"}

\* Python binds the keywords of a call before the body runs
BaseAgent(keywords, name, model_client, metrics_collector) ==
    IF keywords \subseteq BaseAgentParams
    THEN [raised |-> None,
          agent |-> Some([name |-> name, model_client |-> model_client,
                          metrics_collector |-> metrics_collector])]
    ELSE [raised |-> Some(Exc("TypeError",
             "BaseAgent.__init__() got an unexpected keyword argument 'tools'")),
          agent |-> None]

\* ResearchAgent, AnalysisAgent, WriterAgent, CriticAgent: each builds its
\* system message and calls super().__init__(..., tools=tools)
SpecializedAgent(name, model_client, metrics_collector, tools) ==
    LET made == BaseAgent(SuperInitKeywords, name, model_client, metrics_collector)
    IN  IF made.raised # None THEN made
        ELSE [raised |-> None,
              agent |-> Some([name |-> name, model_client |-> model_client,
                              metrics_collector |-> metrics_collector,
                              tools |-> tools])]

\* Config.from_env() with no environment set
DefaultConfig ==
    [model_type |-> "ollama", model_name |-> None, max_rounds |-> DefaultMaxRounds]
TeamConfigs ==
    {[model_type |-> t, model_name |-> Some(n), max_rounds |-> r] :
        t \in {"ollama", "openai"}, n \in {"llama3.2", "gpt-4o", "test-model"},
        r \in RoundsChoices}
TeamArguments ==
    [config : {None} \cup {Some(c) : c \in TeamConfigs},
     metrics_collector : {None, Some("collector")},
     enable_tools : BOOLEAN]

\* the attributes of self that __init__ has set when it ends, and what it
\* raised
ResearchTeam(config, metrics_collector, enable_tools) ==
    LET cfg == IF config # None THEN config[1] ELSE DefaultConfig
        collector == IF metrics_collector # None THEN metrics_collector[1]
                     ELSE "MetricsCollector()"
        client == <<cfg.model_type, cfg.model_name>>
        tools == IF enable_tools THEN <<"web_search", "calculator">> ELSE <<>>
        self0 == [config |-> Some(cfg), metrics |-> Some(collector),
                  enable_tools |-> Some(enable_tools),
                  model_client |-> Some(client), tools |-> Some(tools),
                  researcher |-> None, analyst |-> None, writer |-> None,
                  critic |-> None, termination |-> None,
                  max_context_tokens |-> None]
        r == SpecializedAgent("Researcher", client, collector,
                              IF enable_tools THEN Some(tools) ELSE None)
        a == SpecializedAgent("Analyst", client, collector,
                              IF enable_tools THEN Some(<<tools[2]>>) ELSE None)
        w == SpecializedAgent("Writer", client, collector, None)
        c == SpecializedAgent("Critic", client, collector, None)
        self1 == [self0 EXCEPT !.researcher = r.agent]
        self2 == [self1 EXCEPT !.analyst = a.agent]
        self3 == [self2 EXCEPT !.writer = w.agent]
        self4 == [self3 EXCEPT !.critic = c.agent]
    IN  IF r.raised # None THEN [raised |-> r.raised, self |-> self0]
        ELSE IF a.raised # None THEN [raised |-> a.raised, self |-> self1]
        ELSE IF w.raised # None THEN [raised |-> w.raised, self |-> self2]
        ELSE IF c.raised # None THEN [raised |-> c.raised, self |-> self3]
        ELSE [raised |-> None,
              self |-> [self4 EXCEPT
                          !.termination = Some(cfg.max_rounds),
                          !.max_context_tokens = Some(max_context_tokens)]]

TeamInit ==
    /\ RunIdle /\ TruncIdle /\ SelIdle /\ CollIdle /\ ConcIdle /\ CalcIdle
    /\ CostIdle /\ CacheIdle /\ JobIdle /\ SaveIdle
    /\ bpc = "call"
    /\ bargs \in TeamArguments
    /\ team = <<>>

TeamConstruct ==
    /\ bpc = "call"
    /\ team' = ResearchTeam(bargs.config, bargs.metrics_collector,
                            bargs.enable_tools)
    /\ bpc' = "done"
    /\ UNCHANGED <<runVars, truncVars, selVars, collVars, concVars, calcVars,
                   costVars, cacheVars, jobVars, saveVars, bargs>>

TeamNext == TeamConstruct

TeamSpec == TeamInit /\ [][TeamNext]_vars

\* C26: constructing a ResearchTeam with a valid configuration and a model
\* client succeeds and yields a team whose researcher, analyst, writer and
\* critic all exist, with tools enabled by default: the researcher given
\* web_search and calculator, the analyst calculator only, writer and critic
\* none.
C26_ConstructionSucceeds ==
    (bpc = "done" /\ bargs.config # None) =>
        /\ team.raised = None
        /\ \A who \in {"researcher", "analyst", "writer", "critic"} :
               team.self[who] # None
        /\ bargs.enable_tools =>
               /\ team.self.researcher[1].tools = Some(<<"web_search", "calculator">>)
               /\ team.self.analyst[1].tools = Some(<<"calculator">>)
               /\ team.self.writer[1].tools = None
               /\ team.self.critic[1].tools = None

(* ------------------- ResearchTeam.research: progress ------------------- *)
\* a step of a started research(): the event loop resumes the coroutine
\* whenever the model or tool call it awaits has returned or raised
RunStep == StreamMessage \/ StreamResult \/ Raise \/ Finish

FairSpec == Spec /\ WF_vars(RunStep)

\* C25: provided every model and tool call eventually returns or raises,
\* every run eventually leaves Running for Completed or Failed, and no run
\* has more than max_rounds messages.
C25_TerminationAlwaysFires ==
    /\ (pc = "running") ~> (pc \in {"completed", "failed"})
    /\ [](MessageCount(emitted) <= max_rounds)

\* a run that no mention stopped has left Running at its max_rounds-th message
C25_Witness ==
    /\ pc \in {"completed", "failed"}
    /\ stream = "exhausted"
    /\ max_rounds = 3
    /\ MessageCount(emitted) = max_rounds
    /\ \A i \in 1..Len(emitted) : ~Mentions(emitted[i].content, "TERMINATE")

====
